---- MODULE Spec2Model ----
(***************************************************************************)
(* State machine of ecommerce-frontend/src/App.js: the React component's   *)
(* state, its asynchronous handlers split at their await points, the timer *)
(* of the cache probe, and the HTTP backend the handlers talk to.          *)
(*                                                                         *)
(* A handler invocation is a task; it leaves the bag of tasks when it       *)
(* returns.  Every request of a task goes through                          *)
(* three steps: the handler sends it (net = "sent"), the backend serves it *)
(* (net = "served", the response is stored in the task), and the event     *)
(* loop resumes the handler with the response.  Between two awaits a       *)
(* handler runs atomically (one JavaScript event loop).                    *)
(***************************************************************************)
EXTENDS Integers, Sequences, FiniteSets, Bags, TLC

\* Number of handler invocations the user triggers in one behaviour.
MaxOps == 2
\* setTimeout(..., 2000)
Delay == 2000
\* The clock advances in steps of half the delay.
TickLen == Delay \div 2

\* JavaScript null for selectedProductId; product ids are naturals.
Null == -1
\* JavaScript null for error.
NoError == "null"
\* The value of a missing field (error.response.data.message).
Undefined == "undefined"

VARIABLES
    products,           \* useState([])
    loading,            \* useState(true)
    error,              \* useState(null)
    productName,        \* useState('')
    productPrice,       \* useState('')
    selectedProductId,  \* useState(null)
    responseMessage,    \* useState('')
    queueMessages,      \* useState([])
    cacheTestResults,   \* useState({firstFetchStatus, secondFetchStatus, overallMessage})
    mounted,            \* the mount effect has run
    tasks,              \* the handler invocations that have not returned (a bag)
    started,            \* how many handler invocations the user has triggered
    interfered,         \* history: a probe run in progress has overlapped another
                        \* asynchronous handler invocation
    catalog,            \* backend: the products, in server order
    nextId,             \* backend: the id the next created product gets
    cache,              \* backend: the response cache holds the product list
    serverQueue,        \* backend: the messages of product_queue
    writes              \* history: how many writes the backend has applied

ui == <<products, loading, error, productName, productPrice, selectedProductId,
        responseMessage, queueMessages, cacheTestResults>>
editor == <<productName, productPrice, selectedProductId>>
server == <<catalog, nextId, cache, serverQueue, writes>>
vars == <<ui, mounted, tasks, started, interfered, server>>

-----------------------------------------------------------------------------
(* Values *)

Product(id, name, price) == [id |-> id, name |-> name, price |-> price]

\* What the user types in the name field and in the number field.
TypedNames == {"Gadget"}
TypedPrices == {"12"}

\* parseFloat: a numeral is its number, everything else is NaN.
ParseFloat(v) == IF v \in {"", "NaN", "null"} THEN "NaN" ELSE v

\* JSON.stringify of a number in a request body: NaN is sent as null.
JsonNumber(v) == IF v = "NaN" THEN "null" ELSE v

\* JavaScript truthiness of selectedProductId (null and 0 are falsy).
Truthy(id) == id # Null /\ id # 0

\* The component's render gates.
View == IF loading THEN "loading" ELSE IF error # NoError THEN "error" ELSE "main"

NoResp == [ok |-> FALSE, shape |-> "pending", body |-> <<>>]

\* The failure shapes of a request: no response at all, an error response
\* with a message field, an error response without one.
FailShapes == {"none", "msg", "nomsg"}
ServerMessage == "Server error"
ErrorMessage(shape) ==
    IF shape = "none" THEN "Network Error" ELSE "Request failed with status code 500"

\* A handler invocation: what it closed over at the click (sel, name, price),
\* the request it waits for (stage, method, net), the response once served,
\* the value of its first fetchProducts (firstStatus), the time its timer has
\* run (elapsed) and, as history, the number of the write it made (wrote).
Task(kind, stage, method, sel, name, price) ==
    [kind |-> kind, stage |-> stage, net |-> "sent", method |-> method,
     sel |-> sel, name |-> name, price |-> price, resp |-> NoResp,
     firstStatus |-> "", elapsed |-> 0, wrote |-> 0]

\* The task sends its next request.
Send(t, stage, method) ==
    [t EXCEPT !.stage = stage, !.net = "sent", !.method = method, !.resp = NoResp]

Live == BagToSet(tasks)
Put(t) == SetToBag({t})

\* A probe run is among the handler invocations of bag b.
ProbeLive(b) == \E u \in BagToSet(b) : u.kind = "probe"

\* The user triggers a handler: a new task.
Start(t) ==
    /\ tasks' = tasks (+) Put(t)
    /\ started' = started + 1
    /\ interfered' = (ProbeLive(tasks (+) Put(t)) /\ (interfered \/ tasks # EmptyBag))
\* Task t goes on as u.
Become(t, u) ==
    /\ tasks' = (tasks (-) Put(t)) (+) Put(u)
    /\ UNCHANGED <<started, interfered>>
\* The handler invocation has returned.
Return(t) ==
    /\ tasks' = tasks (-) Put(t)
    /\ UNCHANGED started
    /\ interfered' = (interfered /\ ProbeLive(tasks (-) Put(t)))

Served(t, stage) ==
    /\ t \in Live
    /\ t.stage = stage
    /\ t.net = "served"

\* Mutant of CanStart: the buttons are there while the list is loading.
CanStartWhileLoading == View # "error" /\ started < MaxOps

\* The user can trigger a handler: the buttons are rendered.
CanStart == View = "main" /\ started < MaxOps

Init ==
    /\ products = <<>>
    /\ loading = TRUE
    /\ error = NoError
    /\ productName = ""
    /\ productPrice = ""
    /\ selectedProductId = Null
    /\ responseMessage = ""
    /\ queueMessages = <<>>
    /\ cacheTestResults =
         [firstFetchStatus |-> "", secondFetchStatus |-> "", overallMessage |-> ""]
    /\ mounted = FALSE
    /\ tasks = EmptyBag
    /\ started = 0
    /\ interfered = FALSE
    /\ catalog = <<Product(0, "Widget", "9")>>
    /\ nextId = 1
    /\ cache = FALSE
    /\ serverQueue = <<"m1">>
    /\ writes = 0

-----------------------------------------------------------------------------
(* fetchProducts *)

\* useEffect(() => { fetchProducts() }, [])
Mount ==
    /\ ~mounted
    /\ mounted' = TRUE
    /\ tasks' = tasks (+) Put(Task("mount", "fetch", "GET", Null, "", ""))
    /\ UNCHANGED <<ui, started, interfered, server>>

\* Mutant of FetchProductsEffect: the fetched list is stored only when no
\* list is held yet, a list already held is kept.
FetchProductsEffectKeepsList(r) ==
    /\ IF r.ok
         THEN /\ products' = IF products = <<>> THEN r.body.products ELSE products
              /\ UNCHANGED error
         ELSE /\ error' = "Error fetching products: " \o ErrorMessage(r.shape)
                             \o ". Please try again later."
              /\ UNCHANGED products
    /\ loading' = FALSE

\* fetchProducts after its await: the state updates of both branches.
FetchProductsEffect(r) ==
    /\ IF r.ok
         THEN products' = r.body.products /\ UNCHANGED error
         ELSE /\ error' = "Error fetching products: " \o ErrorMessage(r.shape)
                             \o ". Please try again later."
              /\ UNCHANGED products
    /\ loading' = FALSE

\* Mutant of FetchProductsReturn: a failed fetch reports a miss to its caller.
FetchProductsReturnMiss(r) == IF r.ok THEN r.body.cacheStatus ELSE "miss"

\* fetchProducts' return value.
FetchProductsReturn(r) == IF r.ok THEN r.body.cacheStatus ELSE "null"

\* The fetch of the mount effect, or the refresh after a write, completes;
\* its caller does nothing after it.
FetchProductsDone(t) ==
    /\ Served(t, "fetch")
    /\ FetchProductsEffect(t.resp)
    /\ Return(t)
    /\ UNCHANGED <<editor, responseMessage, queueMessages, cacheTestResults,
                   mounted, server>>

-----------------------------------------------------------------------------
(* The editor *)

\* onClick of a product's Edit button.
handleSelectProduct(p) ==
    /\ View = "main"
    /\ selectedProductId' = p.id
    /\ productName' = p.name
    /\ productPrice' = p.price
    /\ UNCHANGED <<products, loading, error, responseMessage, queueMessages,
                   cacheTestResults, mounted, tasks, started, interfered,
                   server>>

\* onChange of the name field.
ChangeName(v) ==
    /\ View = "main"
    /\ productName' = v
    /\ UNCHANGED <<products, loading, error, productPrice, selectedProductId,
                   responseMessage, queueMessages, cacheTestResults, mounted,
                   tasks, started, interfered,
                   server>>

\* onChange of the number field: setProductPrice(parseFloat(e.target.value)).
ChangePrice(v) ==
    /\ View = "main"
    /\ productPrice' = ParseFloat(v)
    /\ UNCHANGED <<products, loading, error, productName, selectedProductId,
                   responseMessage, queueMessages, cacheTestResults, mounted,
                   tasks, started, interfered,
                   server>>

\* The method handleAddOrUpdateProduct picks: selectedProductId ? put : post.
SubmitMethod(id) == IF Truthy(id) THEN "PUT" ELSE "POST"

\* handleAddOrUpdateProduct up to its await: the request is built from the
\* editor as it is at the click.
handleAddOrUpdateProduct ==
    /\ CanStart
    /\ Start(Task("submit", "write", SubmitMethod(selectedProductId), selectedProductId,
              productName, JsonNumber(ParseFloat(productPrice))))
    /\ UNCHANGED <<ui, mounted, server>>

\* error.response ? error.response.data.message : fallback
FailureMessage(r, fallback) ==
    IF r.shape # "none"
      THEN IF "message" \in DOMAIN r.body THEN r.body.message ELSE Undefined
      ELSE fallback

\* Mutant of SubmitResponse: the selection is not reset after a success.
SubmitResponseKeepsSelection(t) ==
    /\ Served(t, "write")
    /\ t.kind = "submit"
    /\ LET r == t.resp
       IN IF r.ok
            THEN /\ responseMessage' =
                      "Product " \o (IF Truthy(t.sel) THEN "updated" ELSE "added")
                        \o ": " \o r.body.name \o " - $" \o r.body.price
                 /\ productName' = ""
                 /\ productPrice' = ""
                 /\ UNCHANGED selectedProductId
                 /\ Become(t, Send(t, "fetch", "GET"))
            ELSE /\ responseMessage' = FailureMessage(r, "Failed to perform operation")
                 /\ Return(t)
                 /\ UNCHANGED editor
    /\ UNCHANGED <<products, loading, error, queueMessages, cacheTestResults,
                   mounted, server>>

\* Mutant of SubmitResponse: the fields are cleared after a failure too.
SubmitResponseClearsOnFailure(t) ==
    /\ Served(t, "write")
    /\ t.kind = "submit"
    /\ LET r == t.resp
       IN /\ responseMessage' =
               IF r.ok
                 THEN "Product " \o (IF Truthy(t.sel) THEN "updated" ELSE "added")
                        \o ": " \o r.body.name \o " - $" \o r.body.price
                 ELSE FailureMessage(r, "Failed to perform operation")
          /\ productName' = ""
          /\ productPrice' = ""
          /\ selectedProductId' = Null
          /\ IF r.ok THEN Become(t, Send(t, "fetch", "GET")) ELSE Return(t)
    /\ UNCHANGED <<products, loading, error, queueMessages, cacheTestResults,
                   mounted, server>>

\* handleAddOrUpdateProduct after the write's await, up to the await of
\* fetchProducts (success) or to its end (catch).
SubmitResponse(t) ==
    /\ Served(t, "write")
    /\ t.kind = "submit"
    /\ LET r == t.resp
       IN IF r.ok
            THEN /\ responseMessage' =
                      "Product " \o (IF Truthy(t.sel) THEN "updated" ELSE "added")
                        \o ": " \o r.body.name \o " - $" \o r.body.price
                 /\ productName' = ""
                 /\ productPrice' = ""
                 /\ selectedProductId' = Null
                 /\ Become(t, Send(t, "fetch", "GET"))
            ELSE /\ responseMessage' = FailureMessage(r, "Failed to perform operation")
                 /\ Return(t)
                 /\ UNCHANGED editor
    /\ UNCHANGED <<products, loading, error, queueMessages, cacheTestResults,
                   mounted, server>>

\* Mutant of handleDeleteProduct: the product is taken off the stored list at
\* the click, before the backend has answered.
handleDeleteProductOptimistic(id) ==
    /\ CanStart
    /\ Start(Task("delete", "write", "DELETE", id, "", ""))
    /\ products' = SelectSeq(products, LAMBDA p : p.id # id)
    /\ UNCHANGED <<loading, error, editor, responseMessage, queueMessages,
                   cacheTestResults, mounted, server>>

\* handleDeleteProduct(id) up to its await.
handleDeleteProduct(id) ==
    /\ CanStart
    /\ Start(Task("delete", "write", "DELETE", id, "", ""))
    /\ UNCHANGED <<ui, mounted, server>>

\* Mutant of DeleteResponse: a successful delete of the selected product
\* returns the editor to create mode with empty fields.
DeleteResponseClearsEditor(t) ==
    /\ Served(t, "write")
    /\ t.kind = "delete"
    /\ LET r == t.resp
       IN IF r.ok
            THEN /\ responseMessage' = "Product deleted successfully"
                 /\ Become(t, Send(t, "fetch", "GET"))
                 /\ IF selectedProductId = t.sel
                      THEN /\ selectedProductId' = Null
                           /\ productName' = ""
                           /\ productPrice' = ""
                      ELSE UNCHANGED editor
            ELSE /\ responseMessage' = FailureMessage(r, "Failed to delete product")
                 /\ Return(t)
                 /\ UNCHANGED editor
    /\ UNCHANGED <<products, loading, error, queueMessages, cacheTestResults,
                   mounted, server>>

\* handleDeleteProduct after the delete's await.
DeleteResponse(t) ==
    /\ Served(t, "write")
    /\ t.kind = "delete"
    /\ LET r == t.resp
       IN IF r.ok
            THEN /\ responseMessage' = "Product deleted successfully"
                 /\ Become(t, Send(t, "fetch", "GET"))
            ELSE /\ responseMessage' = FailureMessage(r, "Failed to delete product")
                 /\ Return(t)
    /\ UNCHANGED <<products, loading, error, editor, queueMessages,
                   cacheTestResults, mounted, server>>

-----------------------------------------------------------------------------
(* The queue viewer *)

\* fetchQueueMessages up to its await.
fetchQueueMessages ==
    /\ CanStart
    /\ Start(Task("queue", "qget", "GET", Null, "", ""))
    /\ UNCHANGED <<ui, mounted, server>>

\* Mutant of FetchQueueDone: a failed queue fetch keeps the batch held.
FetchQueueDoneKeepsBatch(t) ==
    /\ Served(t, "qget")
    /\ queueMessages' = IF t.resp.ok THEN t.resp.body ELSE queueMessages
    /\ Return(t)
    /\ UNCHANGED <<products, loading, error, editor, responseMessage,
                   cacheTestResults, mounted, server>>

\* fetchQueueMessages after its await.
FetchQueueDone(t) ==
    /\ Served(t, "qget")
    /\ queueMessages' = IF t.resp.ok THEN t.resp.body ELSE <<>>
    /\ Return(t)
    /\ UNCHANGED <<products, loading, error, editor, responseMessage,
                   cacheTestResults, mounted, server>>

\* Mutant of clearQueueMessages: the clear also purges the remote queue.
clearQueueMessagesPurges ==
    /\ View = "main"
    /\ queueMessages' = <<>>
    /\ responseMessage' = "Queue messages cleared"
    /\ serverQueue' = <<>>
    /\ UNCHANGED <<products, loading, error, editor, cacheTestResults, mounted,
                   tasks, started, interfered, catalog, nextId, cache, writes>>

\* clearQueueMessages: synchronous.
clearQueueMessages ==
    /\ View = "main"
    /\ queueMessages' = <<>>
    /\ responseMessage' = "Queue messages cleared"
    /\ UNCHANGED <<products, loading, error, editor, cacheTestResults, mounted,
                   tasks, started, interfered,
                   server>>

-----------------------------------------------------------------------------
(* The cache probe *)

\* testRedisCache up to the await of the cache-clear request.
testRedisCache ==
    /\ CanStart
    /\ cacheTestResults' = [firstFetchStatus |-> "", secondFetchStatus |-> "",
                            overallMessage |-> "Clearing Redis cache..."]
    /\ Start(Task("probe", "clear", "GET", Null, "", ""))
    /\ UNCHANGED <<products, loading, error, editor, responseMessage,
                   queueMessages, mounted, server>>

\* Mutant of ProbeClearDone: the failure of the cache-clear is not caught
\* before the first fetch, the probe goes on to it.
ProbeClearDoneGoesOn(t) ==
    /\ Served(t, "clear")
    /\ t.kind = "probe"
    /\ cacheTestResults' =
         [cacheTestResults EXCEPT
            !.overallMessage = IF t.resp.ok
                                 THEN "Redis cache cleared. Testing cache..."
                                 ELSE "Error testing Redis cache",
            !.firstFetchStatus = "Fetching products from database (cache miss)..."]
    /\ Become(t, Send(t, "fetch1", "GET"))
    /\ UNCHANGED <<products, loading, error, editor, responseMessage,
                   queueMessages, mounted, server>>

\* testRedisCache after the cache-clear's await: on success up to the await
\* of the first fetchProducts, on failure the catch block.
ProbeClearDone(t) ==
    /\ Served(t, "clear")
    /\ t.kind = "probe"
    /\ IF t.resp.ok
         THEN /\ cacheTestResults' =
                   [cacheTestResults EXCEPT
                      !.overallMessage = "Redis cache cleared. Testing cache...",
                      !.firstFetchStatus =
                          "Fetching products from database (cache miss)..."]
              /\ Become(t, Send(t, "fetch1", "GET"))
         ELSE /\ cacheTestResults' =
                   [cacheTestResults EXCEPT
                      !.overallMessage = "Error testing Redis cache"]
              /\ Return(t)
    /\ UNCHANGED <<products, loading, error, editor, responseMessage,
                   queueMessages, mounted, server>>

\* testRedisCache after the first fetchProducts: fetchProducts handles its
\* own failure and returns null, the probe records the status and arms the
\* timer.
ProbeFirstFetchDone(t) ==
    /\ Served(t, "fetch1")
    /\ FetchProductsEffect(t.resp)
    /\ cacheTestResults' =
         [cacheTestResults EXCEPT
            !.firstFetchStatus =
                "First Fetch: Cache " \o FetchProductsReturn(t.resp)]
    /\ Become(t, [t EXCEPT !.stage = "wait", !.net = "idle", !.resp = NoResp,
                            !.firstStatus = FetchProductsReturn(t.resp),
                            !.elapsed = 0])
    /\ UNCHANGED <<editor, responseMessage, queueMessages, mounted, server>>

\* A timer that is armed and not yet due.
Waiting(t) == t.stage = "wait" /\ t.elapsed < Delay

\* Task t after TickLen units of time.
Later(t) == IF Waiting(t) THEN [t EXCEPT !.elapsed = @ + TickLen] ELSE t

RECURSIVE Copies(_)
Copies(S) ==
    IF S = {} THEN 0
    ELSE LET t == CHOOSE x \in S : TRUE IN tasks[t] + Copies(S \ {t})

\* Time passes for every armed timer.
Tick ==
    /\ \E t \in Live : Waiting(t)
    /\ tasks' = [u \in {Later(t) : t \in Live} |->
                   Copies({t \in Live : Later(t) = u})]
    /\ UNCHANGED <<ui, mounted, started, interfered, server>>

\* Mutant of TimerDue: the timer never becomes due.
TimerNeverDue(t) == t.elapsed > Delay

\* Mutant of TimerDue: the callback runs without waiting for the delay.
TimerDueAtOnce(t) == t.elapsed >= 0

\* The timer of setTimeout(callback, 2000) is due.
TimerDue(t) == t.elapsed >= Delay

\* The timer's callback up to the await of the second fetchProducts.
ProbeTimerFire(t) ==
    /\ t \in Live
    /\ t.stage = "wait"
    /\ TimerDue(t)
    /\ cacheTestResults' =
         [cacheTestResults EXCEPT
            !.secondFetchStatus = "Fetching products again (cache hit)..."]
    /\ Become(t, Send(t, "fetch2", "GET"))
    /\ UNCHANGED <<products, loading, error, editor, responseMessage,
                   queueMessages, mounted, server>>

\* Mutant of ProbeSecondFetchDone: the status of a successful second fetch
\* states the expected hit instead of the tag the fetch returned.
ProbeSecondFetchDoneAssumesHit(t) ==
    /\ Served(t, "fetch2")
    /\ FetchProductsEffect(t.resp)
    /\ cacheTestResults' =
         [cacheTestResults EXCEPT
            !.secondFetchStatus =
                "Second Fetch: Cache " \o (IF t.resp.ok THEN "hit" ELSE "null"),
            !.overallMessage = "Cache test completed. Check the statuses above."]
    /\ Return(t)
    /\ UNCHANGED <<editor, responseMessage, queueMessages, mounted, server>>

\* The timer's callback after the second fetchProducts.
ProbeSecondFetchDone(t) ==
    /\ Served(t, "fetch2")
    /\ FetchProductsEffect(t.resp)
    /\ cacheTestResults' =
         [cacheTestResults EXCEPT
            !.secondFetchStatus =
                "Second Fetch: Cache " \o FetchProductsReturn(t.resp),
            !.overallMessage = "Cache test completed. Check the statuses above."]
    /\ Return(t)
    /\ UNCHANGED <<editor, responseMessage, queueMessages, mounted, server>>

\* clearRedisCache up to its await.
clearRedisCache ==
    /\ CanStart
    /\ Start(Task("clear", "clear", "GET", Null, "", ""))
    /\ UNCHANGED <<ui, mounted, server>>

\* clearRedisCache after its await.
ClearCacheDone(t) ==
    /\ Served(t, "clear")
    /\ t.kind = "clear"
    /\ cacheTestResults' =
         [cacheTestResults EXCEPT
            !.overallMessage = IF t.resp.ok
                                 THEN "Redis cache cleared successfully"
                                 ELSE "Failed to clear Redis cache"]
    /\ Return(t)
    /\ UNCHANGED <<products, loading, error, editor, responseMessage,
                   queueMessages, mounted, server>>

-----------------------------------------------------------------------------
(* The backend, by its HTTP contract *)

InFlight(t) == t \in Live /\ t.net = "sent"

Ok(body) == [ok |-> TRUE, shape |-> "ok", body |-> body]

Respond(t, r) == Become(t, [t EXCEPT !.net = "served", !.resp = r])

\* The response to a write that the backend applied as its n-th.
Applied(t, r, n) ==
    /\ Become(t, [t EXCEPT !.net = "served", !.resp = r, !.wrote = n])
    /\ writes' = n

HasId(id) == \E k \in DOMAIN catalog : catalog[k].id = id

\* GET /api/products: the catalog, tagged hit when the cache held it.
ServeList(t) ==
    /\ InFlight(t)
    /\ t.stage \in {"fetch", "fetch1", "fetch2"}
    /\ Respond(t, Ok([products |-> catalog,
                      cacheStatus |-> IF cache THEN "hit" ELSE "miss",
                      asOf |-> writes]))
    /\ cache' = TRUE
    /\ UNCHANGED <<ui, mounted, catalog, nextId, serverQueue, writes>>

\* POST /api/products: the product gets the next id and is appended.
ServeCreate(t) ==
    /\ InFlight(t)
    /\ t.stage = "write" /\ t.method = "POST"
    /\ LET p == Product(nextId, t.name, t.price)
       IN /\ catalog' = Append(catalog, p)
          /\ serverQueue' = Append(serverQueue, p.name)
          /\ Applied(t, Ok(p), writes + 1)
    /\ nextId' = nextId + 1
    /\ cache' = FALSE
    /\ UNCHANGED <<ui, mounted>>

\* PUT /api/products/{id}: the product is replaced in place.
ServeUpdate(t) ==
    /\ InFlight(t)
    /\ t.stage = "write" /\ t.method = "PUT"
    /\ HasId(t.sel)
    /\ LET p == Product(t.sel, t.name, t.price)
       IN /\ catalog' = [k \in DOMAIN catalog |->
                           IF catalog[k].id = p.id THEN p ELSE catalog[k]]
          /\ Applied(t, Ok(p), writes + 1)
    /\ cache' = FALSE
    /\ UNCHANGED <<ui, mounted, nextId, serverQueue>>

\* DELETE /api/products/{id}
ServeDelete(t) ==
    /\ InFlight(t)
    /\ t.stage = "write" /\ t.method = "DELETE"
    /\ HasId(t.sel)
    /\ catalog' = SelectSeq(catalog, LAMBDA p : p.id # t.sel)
    /\ Applied(t, Ok(<<>>), writes + 1)
    /\ cache' = FALSE
    /\ UNCHANGED <<ui, mounted, nextId, serverQueue>>

\* GET /api/queue/product_queue
ServeQueue(t) ==
    /\ InFlight(t)
    /\ t.stage = "qget"
    /\ Respond(t, Ok(serverQueue))
    /\ UNCHANGED <<ui, mounted, server>>

\* GET /api/cache/clear
ServeCacheClear(t) ==
    /\ InFlight(t)
    /\ t.stage = "clear"
    /\ Respond(t, Ok(<<>>))
    /\ cache' = FALSE
    /\ UNCHANGED <<ui, mounted, catalog, nextId, serverQueue, writes>>

\* The failure shapes a handler tells apart: the handlers of a write read
\* error.response, those of a read do not.
FailShapesOf(t) == IF t.stage = "write" THEN FailShapes ELSE {"none"}

\* Any request fails, with no effect on the backend.
ServeFail(t, shape) ==
    /\ InFlight(t)
    /\ shape \in FailShapesOf(t)
    /\ Respond(t, [ok |-> FALSE, shape |-> shape,
                   body |-> IF shape = "msg" THEN [message |-> ServerMessage]
                                             ELSE [status |-> "500"]])
    /\ UNCHANGED <<ui, mounted, server>>

-----------------------------------------------------------------------------

Next ==
    \/ Mount
    \/ \E t \in Live : FetchProductsDone(t)
    \/ \E k \in DOMAIN products : handleSelectProduct(products[k])
    \/ \E v \in TypedNames : ChangeName(v)
    \/ \E v \in TypedPrices : ChangePrice(v)
    \/ handleAddOrUpdateProduct
    \/ \E t \in Live : SubmitResponse(t)
    \/ \E k \in DOMAIN products : handleDeleteProduct(products[k].id)
    \/ \E t \in Live : DeleteResponse(t)
    \/ fetchQueueMessages
    \/ \E t \in Live : FetchQueueDone(t)
    \/ clearQueueMessages
    \/ testRedisCache
    \/ \E t \in Live : ProbeClearDone(t)
    \/ \E t \in Live : ProbeFirstFetchDone(t)
    \/ Tick
    \/ \E t \in Live : ProbeTimerFire(t)
    \/ \E t \in Live : ProbeSecondFetchDone(t)
    \/ clearRedisCache
    \/ \E t \in Live : ClearCacheDone(t)
    \/ \E t \in Live : ServeList(t)
    \/ \E t \in Live : ServeCreate(t)
    \/ \E t \in Live : ServeUpdate(t)
    \/ \E t \in Live : ServeDelete(t)
    \/ \E t \in Live : ServeQueue(t)
    \/ \E t \in Live : ServeCacheClear(t)
    \/ \E t \in Live, shape \in FailShapes : ServeFail(t, shape)

Spec == Init /\ [][Next]_vars

\* The user works with the product list and the editor, and types prices only.
NextCatalog ==
    \/ Mount
    \/ \E t \in Live : FetchProductsDone(t)
    \/ \E k \in DOMAIN products : handleSelectProduct(products[k])
    \/ \E v \in TypedPrices : ChangePrice(v)
    \/ handleAddOrUpdateProduct
    \/ \E t \in Live : SubmitResponse(t)
    \/ \E k \in DOMAIN products : handleDeleteProduct(products[k].id)
    \/ \E t \in Live : DeleteResponse(t)
    \/ \E t \in Live : ServeList(t)
    \/ \E t \in Live : ServeCreate(t)
    \/ \E t \in Live : ServeUpdate(t)
    \/ \E t \in Live : ServeDelete(t)
    \/ \E t \in Live, shape \in FailShapes : ServeFail(t, shape)

SpecCatalog == Init /\ [][NextCatalog]_vars

\* The user works with the product list and the editor's buttons, without
\* typing.
NextStore ==
    \/ Mount
    \/ \E t \in Live : FetchProductsDone(t)
    \/ \E k \in DOMAIN products : handleSelectProduct(products[k])
    \/ handleAddOrUpdateProduct
    \/ \E t \in Live : SubmitResponse(t)
    \/ \E k \in DOMAIN products : handleDeleteProduct(products[k].id)
    \/ \E t \in Live : DeleteResponse(t)
    \/ \E t \in Live : ServeList(t)
    \/ \E t \in Live : ServeCreate(t)
    \/ \E t \in Live : ServeUpdate(t)
    \/ \E t \in Live : ServeDelete(t)
    \/ \E t \in Live, shape \in FailShapes : ServeFail(t, shape)

SpecStore == Init /\ [][NextStore]_vars

\* The user works with the queue section and the cache section.
NextTools ==
    \/ Mount
    \/ \E t \in Live : FetchProductsDone(t)
    \/ fetchQueueMessages
    \/ \E t \in Live : FetchQueueDone(t)
    \/ clearQueueMessages
    \/ testRedisCache
    \/ \E t \in Live : ProbeClearDone(t)
    \/ \E t \in Live : ProbeFirstFetchDone(t)
    \/ Tick
    \/ \E t \in Live : ProbeTimerFire(t)
    \/ \E t \in Live : ProbeSecondFetchDone(t)
    \/ clearRedisCache
    \/ \E t \in Live : ClearCacheDone(t)
    \/ \E t \in Live : ServeList(t)
    \/ \E t \in Live : ServeQueue(t)
    \/ \E t \in Live : ServeCacheClear(t)
    \/ \E t \in Live, shape \in FailShapes : ServeFail(t, shape)

SpecTools == Init /\ [][NextTools]_vars

\* The user adds products, deletes products and runs the cache probe.
NextRuns ==
    \/ Mount
    \/ \E t \in Live : FetchProductsDone(t)
    \/ handleAddOrUpdateProduct
    \/ \E t \in Live : SubmitResponse(t)
    \/ \E k \in DOMAIN products : handleDeleteProduct(products[k].id)
    \/ \E t \in Live : DeleteResponse(t)
    \/ testRedisCache
    \/ \E t \in Live : ProbeClearDone(t)
    \/ \E t \in Live : ProbeFirstFetchDone(t)
    \/ Tick
    \/ \E t \in Live : ProbeTimerFire(t)
    \/ \E t \in Live : ProbeSecondFetchDone(t)
    \/ \E t \in Live : ServeList(t)
    \/ \E t \in Live : ServeCreate(t)
    \/ \E t \in Live : ServeDelete(t)
    \/ \E t \in Live : ServeCacheClear(t)
    \/ \E t \in Live : ServeFail(t, "none")

\* The event loop resumes a handler whose response has arrived or whose timer
\* is due.
Resume ==
    \E t \in Live :
        \/ FetchProductsDone(t)
        \/ SubmitResponse(t)
        \/ DeleteResponse(t)
        \/ FetchQueueDone(t)
        \/ ProbeClearDone(t)
        \/ ProbeFirstFetchDone(t)
        \/ ProbeTimerFire(t)
        \/ ProbeSecondFetchDone(t)
        \/ ClearCacheDone(t)

\* A request in flight gets its response, a success or a failure.
Answer ==
    \E t \in Live :
        \/ ServeList(t)
        \/ ServeCreate(t)
        \/ ServeUpdate(t)
        \/ ServeDelete(t)
        \/ ServeQueue(t)
        \/ ServeCacheClear(t)
        \/ \E shape \in FailShapes : ServeFail(t, shape)

\* The mount effect runs, every request is answered, time passes, and the
\* event loop runs every continuation that is ready.
Fairness ==
    /\ WF_vars(Mount)
    /\ WF_vars(Answer)
    /\ WF_vars(Tick)
    /\ WF_vars(Resume)

SpecRuns == Init /\ [][NextRuns]_vars /\ Fairness

-----------------------------------------------------------------------------
(* Steps, as the properties below see them *)

\* The step resumes the handler that waits in task t with t's response.
Handled(t) ==
    /\ t \in Live
    /\ t.net = "served"
    /\ CopiesIn(t, tasks') < CopiesIn(t, tasks)

\* The step sends the request of task u.
Issued(u) ==
    /\ u \in BagToSet(tasks')
    /\ u.net = "sent"
    /\ CopiesIn(u, tasks') > CopiesIn(u, tasks)

\* The step arms the probe's timer in task u.
Armed(u) ==
    /\ u \in BagToSet(tasks')
    /\ u.stage = "wait" /\ u.elapsed = 0
    /\ CopiesIn(u, tasks') > CopiesIn(u, tasks)

\* The step sends no request and arms no timer.
NothingIssued ==
    \A u \in BagToSet(tasks') : ~Issued(u) /\ ~Armed(u)

ProbeFailed == "Error testing Redis cache"
ProbeCompleted == "Cache test completed. Check the statuses above."

-----------------------------------------------------------------------------
(* The cache probe's claims *)

\* C1: in every probe run the first catalog fetch is sent only in the step
\* that receives the response to the cache-clear, the delay starts only in the
\* step in which the first fetch completes (with success or failure), and the
\* second fetch is sent only by a timer that has run for the whole delay.
ProbeOrdering ==
    [][\A u \in BagToSet(tasks') :
          /\ (Issued(u) /\ u.stage = "fetch1") =>
                \E t \in Live : t.kind = "probe" /\ t.stage = "clear" /\ Handled(t)
          /\ Armed(u) =>
                \E t \in Live : t.kind = "probe" /\ t.stage = "fetch1" /\ Handled(t)
          /\ (Issued(u) /\ u.stage = "fetch2") =>
                /\ u.elapsed >= Delay
                /\ \E t \in Live : /\ t.kind = "probe" /\ t.stage = "wait"
                                    /\ t.elapsed >= Delay
                                    /\ CopiesIn(t, tasks') < CopiesIn(t, tasks)]_vars

\* Witness of C1: a probe run has sent its second fetch while another request
\* is in flight.
ProbeSecondFetchSent ==
    \E t, o \in Live :
        /\ t.kind = "probe" /\ t.stage = "fetch2" /\ t.net = "sent"
        /\ o # t /\ o.net = "sent"

\* The step handles the failure of a probe run's cache-clear request.
ProbeClearFailed(t) ==
    t.kind = "probe" /\ t.stage = "clear" /\ Handled(t) /\ ~t.resp.ok

\* C2 as claimed: when the cache-clear of a probe run fails, the run sends no
\* fetch, starts no delay and ends with the probe failure message and with
\* both fetch statuses empty.
ProbeClearFailureEndsEmpty ==
    [][\A t \in Live :
          ProbeClearFailed(t) =>
            /\ NothingIssued
            /\ tasks' = tasks (-) Put(t)
            /\ cacheTestResults' =
                 [firstFetchStatus |-> "", secondFetchStatus |-> "",
                  overallMessage |-> ProbeFailed]]_vars

\* C2 as amended: when the cache-clear of a probe run fails, the run sends no
\* fetch, starts no delay and returns, and it sets the overall message to the
\* probe failure message and leaves both fetch statuses as they are.
ProbeClearFailureShortCircuits ==
    [][\A t \in Live :
          ProbeClearFailed(t) =>
            /\ NothingIssued
            /\ tasks' = tasks (-) Put(t)
            /\ cacheTestResults' =
                 [cacheTestResults EXCEPT !.overallMessage = ProbeFailed]]_vars

\* Witness of C2: a probe run has failed at its cache-clear while another
\* run's first fetch status is on display.
ProbeFailedAtClear ==
    /\ cacheTestResults.overallMessage = ProbeFailed
    /\ cacheTestResults.firstFetchStatus # ""

\* C3 as claimed: the failure of any request of a probe run (the cache-clear
\* or one of the two fetches) ends the run with the probe failure message:
\* no delay is started, no fetch is sent, no completion is reported.
ProbeAnyFailureFails ==
    [][\A t \in Live :
          (t.kind = "probe" /\ Handled(t) /\ ~t.resp.ok) =>
            /\ NothingIssued
            /\ tasks' = tasks (-) Put(t)
            /\ cacheTestResults'.overallMessage = ProbeFailed]_vars

\* The step starts a probe run.
ProbeStarted ==
    \E u \in BagToSet(tasks') : u.kind = "probe" /\ u.stage = "clear" /\ Issued(u)

\* C14 as claimed: the step that starts a probe run sets both fetch statuses
\* to empty and the overall message to the clearing message, and once the
\* overall message is the completion message or the probe failure message no
\* field of the probe status changes except in a step that starts a probe run.
ProbeStatusTerminal ==
    [][/\ ProbeStarted =>
            cacheTestResults' = [firstFetchStatus |-> "", secondFetchStatus |-> "",
                                 overallMessage |-> "Clearing Redis cache..."]
       /\ (/\ cacheTestResults.overallMessage \in {ProbeCompleted, ProbeFailed}
           /\ cacheTestResults' # cacheTestResults) => ProbeStarted]_vars

\* The step handles the success of the second fetch of a probe run whose first
\* fetch succeeded too (its cache-clear succeeded, or it had sent no fetch).
ProbeRunSucceeded(t) ==
    /\ t.kind = "probe" /\ t.stage = "fetch2"
    /\ Handled(t) /\ t.resp.ok
    /\ t.firstStatus # "null"

\* C15 as claimed: in a probe run whose cache-clear and both fetches succeed
\* the first fetch returned miss and the second fetch status records a hit,
\* whatever the other handlers do meanwhile.
ProbeSeesMissThenHit ==
    [][\A t \in Live :
          ProbeRunSucceeded(t) =>
            /\ t.firstStatus = "miss"
            /\ cacheTestResults'.secondFetchStatus = "Second Fetch: Cache hit"]_vars

\* C15 as amended: the fetch statuses record the tags the backend returned
\* for the run's two fetches; in a run that overlaps no other asynchronous
\* handler invocation, and whose cache-clear and both fetches succeed, these
\* are miss for the first fetch and hit for the second.
ProbeRecordsServedTags ==
    [][\A t \in Live :
          /\ (t.kind = "probe" /\ t.stage = "fetch1" /\ Handled(t) /\ t.resp.ok) =>
                cacheTestResults'.firstFetchStatus =
                    "First Fetch: Cache " \o t.resp.body.cacheStatus
          /\ ProbeRunSucceeded(t) =>
                /\ cacheTestResults'.secondFetchStatus =
                      "Second Fetch: Cache " \o t.resp.body.cacheStatus
                /\ ~interfered =>
                      cacheTestResults' =
                        [firstFetchStatus |-> "First Fetch: Cache miss",
                         secondFetchStatus |-> "Second Fetch: Cache hit",
                         overallMessage |-> ProbeCompleted]]_vars

\* Witness of C15: a probe run that overlapped no other handler invocation is
\* about to record the hit of its second fetch after the miss of its first.
ProbeAloneSeesHit ==
    /\ ~interfered
    /\ \E t \in Live : /\ t.kind = "probe" /\ t.stage = "fetch2" /\ t.net = "served"
                        /\ t.resp.ok /\ t.resp.body.cacheStatus = "hit"
                        /\ t.firstStatus = "miss"

-----------------------------------------------------------------------------
(* The catalog's and the editor's claims *)

\* The step handles the successful refresh that follows the write of task t.
RefreshHandled(t) ==
    /\ t.kind \in {"submit", "delete"}
    /\ t.stage = "fetch"
    /\ Handled(t)
    /\ t.resp.ok

\* C4 as claimed: when the refresh fetch that follows a create, update or
\* delete succeeds, the stored product list equals the server catalog.
RefreshShowsServerCatalog ==
    [][\A t \in Live : RefreshHandled(t) => products' = catalog']_vars

\* C4 as amended: when the refresh fetch that follows a create, update or
\* delete succeeds, the stored product list is the catalog the backend served
\* for that fetch, in server order; that catalog is no older than the write
\* of the mutation, and it is the server catalog of the moment unless the
\* backend has applied another write since it served the fetch.
RefreshShowsServedCatalog ==
    [][\A t \in Live :
          RefreshHandled(t) =>
            /\ products' = t.resp.body.products
            /\ t.wrote > 0
            /\ t.resp.body.asOf >= t.wrote
            /\ (t.resp.body.asOf = writes) => (products' = catalog')]_vars

\* Witness of C4: the list shows the catalog with a created product after a
\* refresh.
RefreshedAfterCreate ==
    /\ writes > 0
    /\ Len(products) > 1
    /\ products = catalog
    /\ tasks = EmptyBag

\* The step handles the success of the create or update of task t.
SubmitSucceeded(t) ==
    t.kind = "submit" /\ t.stage = "write" /\ Handled(t) /\ t.resp.ok

\* The step handles the failure of the create or update of task t.
SubmitFailed(t) ==
    t.kind = "submit" /\ t.stage = "write" /\ Handled(t) /\ ~t.resp.ok

\* C5: in the step that handles a successful create or update the editor
\* returns to create mode with empty name and price fields, whatever it held.
EditorResetAfterSubmit ==
    [][\A t \in Live :
          SubmitSucceeded(t) =>
            /\ selectedProductId' = Null
            /\ productName' = ""
            /\ productPrice' = ""]_vars

\* Witness of C5: an update has just succeeded (its refresh is in flight) and
\* the editor is empty and in create mode.
UpdateSucceededEditorEmpty ==
    /\ \E t \in Live : t.kind = "submit" /\ t.stage = "fetch" /\ t.method = "GET"
                        /\ Truthy(t.sel)
    /\ selectedProductId = Null /\ productName = "" /\ productPrice = ""

\* C6 as claimed: a submission is a PUT exactly when a product is selected
\* (the editor is in edit mode), and a POST otherwise.
SubmitDispatchesOnMode ==
    \A t \in Live :
        (t.kind = "submit" /\ t.stage = "write") =>
            (t.method = "PUT" <=> t.sel # Null)

\* C7: the step that handles a failed create or update changes the message
\* only: the editor's mode and fields stay, no request is sent, the handler
\* returns.
EditorKeptOnFailure ==
    [][\A t \in Live :
          SubmitFailed(t) =>
            /\ UNCHANGED editor
            /\ NothingIssued
            /\ tasks' = tasks (-) Put(t)
            /\ UNCHANGED <<products, loading, error, queueMessages,
                           cacheTestResults>>]_vars

\* Witness of C7: a submission has failed and the editor still holds the
\* selection and the typed price.
SubmitFailedEditorKept ==
    /\ responseMessage = "Failed to perform operation"
    /\ selectedProductId # Null
    /\ productPrice = "12"

\* The user can trigger the handlers: the component renders its controls.
UserCanAct == View = "main"

\* C8 as claimed: no failure is fatal to the UI, once loaded the component
\* always offers its controls.
NoFailureIsFatal == loading \/ UserCanAct

\* The fallback message of a failed write.
Fallback(kind) ==
    IF kind = "delete" THEN "Failed to delete product" ELSE "Failed to perform operation"

\* C9 as claimed: the message of a failed create, update or delete is the
\* server's message when the error response carries one, and the fallback
\* message otherwise.
WriteFailureMessage ==
    [][\A t \in Live :
          (t.stage = "write" /\ Handled(t) /\ ~t.resp.ok) =>
            responseMessage' = IF t.resp.shape = "msg" THEN ServerMessage
                                                       ELSE Fallback(t.kind)]_vars

\* The step handles the response to the delete of task t, or to the refresh
\* that follows it.
DeleteHandled(t) == t.kind = "delete" /\ Handled(t)

\* C11: no step of a delete (the click, the handling of the delete's response,
\* the handling of the refresh's response) changes the editor's mode, name
\* field or price field; after a successful delete of the selected product
\* the editor stays in edit mode on an id the refreshed list no longer holds.
DeleteKeepsEditor ==
    [][/\ (\E t \in Live : DeleteHandled(t)) => UNCHANGED editor
       /\ (\E u \in BagToSet(tasks') : u.kind = "delete" /\ Issued(u))
             => UNCHANGED editor]_vars

\* Witness of C11: the delete of the selected product has succeeded and its
\* refresh is done; the editor still holds the product, the list does not.
DeletedProductStillSelected ==
    /\ Truthy(selectedProductId)
    /\ responseMessage = "Product deleted successfully"
    /\ tasks = EmptyBag
    /\ ~\E k \in DOMAIN products : products[k].id = selectedProductId
    /\ ~HasId(selectedProductId)

\* The step handles the success of the write (create, update or delete) of
\* task t.
WriteSucceeded(t) == t.stage = "write" /\ Handled(t) /\ t.resp.ok

\* C12: the stored product list changes only in a step that handles the
\* successful response of a catalog fetch, never in a step of a create, update
\* or delete itself; the step that handles a write's success sends exactly one
\* catalog fetch, a refresh is sent in no other step, and the handler returns
\* when the refresh's response is handled.
NoOptimisticUpdate ==
    [][/\ (products' # products) =>
            \E t \in Live : /\ t.stage \in {"fetch", "fetch1", "fetch2"}
                             /\ Handled(t) /\ t.resp.ok
       /\ \A t \in Live :
            WriteSucceeded(t) =>
                tasks' = (tasks (-) Put(t)) (+) Put(Send(t, "fetch", "GET"))
       /\ \A u \in BagToSet(tasks') :
            (Issued(u) /\ u.stage = "fetch" /\ u.kind # "mount") =>
                \E t \in Live : WriteSucceeded(t) /\ u = Send(t, "fetch", "GET")
       /\ \A t \in Live :
            (t.kind \in {"submit", "delete"} /\ t.stage = "fetch" /\ Handled(t)) =>
                tasks' = tasks (-) Put(t)]_vars

\* Witness of C12: a delete has succeeded and its refresh is in flight; the
\* stored list still shows the product the backend has deleted.
DeletedProductStillListed ==
    \E t \in Live :
        /\ t.kind = "delete" /\ t.stage = "fetch" /\ t.net = "sent"
        /\ \E k \in DOMAIN products : products[k].id = t.sel /\ ~HasId(t.sel)

\* The step handles the failure of the catalog fetch of task t.
FetchFailed(t) ==
    /\ t.stage \in {"fetch", "fetch1", "fetch2"}
    /\ Handled(t)
    /\ ~t.resp.ok

\* C18: the step that handles a failed catalog fetch records the error with
\* its display message, turns loading off, leaves the stored product list as
\* it was and sends no request; the fetch returns null to its caller, which a
\* probe run records as the status of that fetch.
FetchFailureRecorded ==
    [][\A t \in Live :
          FetchFailed(t) =>
            /\ error' = "Error fetching products: " \o ErrorMessage(t.resp.shape)
                            \o ". Please try again later."
            /\ error' # NoError
            /\ loading' = FALSE
            /\ products' = products
            /\ \A u \in BagToSet(tasks') : ~Issued(u)
            /\ (t.stage = "fetch1") =>
                  /\ cacheTestResults'.firstFetchStatus = "First Fetch: Cache null"
                  /\ \E u \in BagToSet(tasks') : Armed(u) /\ u.firstStatus = "null"
            /\ (t.stage = "fetch2") =>
                  cacheTestResults'.secondFetchStatus = "Second Fetch: Cache null"]_vars

\* Witness of C18: the first fetch of a probe run has failed; the error is
\* recorded and the list loaded before is still held.
FetchFailedListKept ==
    /\ error # NoError
    /\ ~loading
    /\ products # <<>>
    /\ cacheTestResults.firstFetchStatus = "First Fetch: Cache null"

\* The stored product list holds a product with this id.
Listed(id) == \E k \in DOMAIN products : products[k].id = id

\* C17 as claimed, its exception taken as widely as it can be: whenever a
\* product is selected in the editor, the stored product list holds a product
\* with the selected id, unless the product has been deleted (the backend's
\* catalog no longer holds it).
SelectionIsListed ==
    (selectedProductId # Null) =>
        (Listed(selectedProductId) \/ ~HasId(selectedProductId))

\* C19 as claimed: once the list has been loaded, whenever no request is in
\* flight and no catalog fetch has failed, the stored product list is the
\* backend's catalog.
QuiescentConsistency ==
    (/\ ~loading
     /\ error = NoError
     /\ \A t \in Live : t.net = "idle") => (products = catalog)

\* C20: while loading is on, nothing the user triggers has started or acted
\* (the editor, the messages, the batch and the probe status are as at the
\* start) and the only handler invocation is the fetch of the mount effect;
\* loading, once off, stays off.
LoadGate ==
    /\ [](loading =>
            /\ started = 0
            /\ editor = <<"", "", Null>>
            /\ responseMessage = "" /\ queueMessages = <<>>
            /\ cacheTestResults.overallMessage = ""
            /\ BagCardinality(tasks) = (IF mounted THEN 1 ELSE 0)
            /\ \A t \in Live : t.kind = "mount" /\ t.stage = "fetch")
    /\ [][~loading => ~loading']_vars

\* Witness of C20: the list is loading and the response to the fetch of the
\* mount effect has arrived, a failure; no control has been rendered so far.
LoadingUntilMountFetchHandled ==
    /\ loading
    /\ \E t \in Live : t.kind = "mount" /\ t.net = "served" /\ ~t.resp.ok

-----------------------------------------------------------------------------
(* Completion *)

\* The position of a request or of the timer in its handler.
StageRank(stage) ==
    CASE stage \in {"clear", "write", "qget"} -> 0
      [] stage \in {"fetch", "fetch1"} -> 1
      [] stage = "wait" -> 2
      [] stage = "fetch2" -> 3

\* C16: when every request is answered and the timer fires, every handler
\* invocation that has started returns, with no request of it left in flight;
\* a probe run returns with the completion message or the probe failure
\* message set; and no request is sent again: a request is the first of a
\* handler invocation, or it is sent by a handler that goes on from an
\* earlier request or the timer, so that a probe run sends one cache-clear and
\* at most two fetches and a mutation one write and at most one fetch.
HandlersRunToCompletion ==
    /\ (tasks # EmptyBag) ~> (tasks = EmptyBag)
    /\ [][/\ \A t \in Live :
               (t.kind = "probe" /\ tasks' = tasks (-) Put(t)) =>
                   cacheTestResults'.overallMessage \in {ProbeCompleted, ProbeFailed}
          /\ \A u \in BagToSet(tasks') :
               Issued(u) =>
                   \/ started' = started + 1 /\ StageRank(u.stage) = 0
                   \/ u.kind = "mount" /\ ~mounted
                   \/ \E t \in Live :
                         /\ t.kind = u.kind
                         /\ t.net \in {"served", "idle"}
                         /\ StageRank(t.stage) < StageRank(u.stage)
                         /\ tasks' = (tasks (-) Put(t)) (+) Put(u)]_vars

\* Witness of C16: a probe run and a mutation have both run to completion,
\* no handler invocation is left.
ProbeAndWriteCompleted ==
    /\ tasks = EmptyBag
    /\ started >= 2
    /\ writes > 0
    /\ cacheTestResults.overallMessage = ProbeCompleted

-----------------------------------------------------------------------------
(* The queue viewer's claims *)

QueueCleared == "Queue messages cleared"

\* The step is a queue clear: the confirmation appears, or the batch is
\* emptied under the confirmation without a queue fetch being handled.
QueueClearStep ==
    /\ responseMessage' = QueueCleared
    /\ queueMessages' = <<>>
    /\ \/ responseMessage # QueueCleared
       \/ /\ queueMessages # <<>>
          /\ ~\E t \in Live : t.stage = "qget" /\ Handled(t)

\* C10: a queue clear sends no request and changes nothing but the held
\* batch and the message: the remote queue is as before, and every queue
\* fetch is answered with the remote queue as it is when it is served.
QueueClearIsLocal ==
    [][/\ QueueClearStep =>
            /\ tasks' = tasks
            /\ UNCHANGED server
            /\ UNCHANGED <<products, loading, error, editor, cacheTestResults>>
       /\ \A u \in BagToSet(tasks') :
            (u.stage = "qget" /\ u.net = "served" /\ u.resp.ok
               /\ CopiesIn(u, tasks') > CopiesIn(u, tasks)) =>
              u.resp.body = serverQueue]_vars

\* C13: the step that handles the response of a queue fetch sets the batch to
\* the messages of the response, in their order, when the fetch succeeded and
\* to the empty sequence when it failed, whatever the batch held; it changes
\* neither the response message nor the product list, the loading and error
\* status or the editor.
QueueFetchReplacesBatch ==
    [][\A t \in Live :
          (t.stage = "qget" /\ Handled(t)) =>
            /\ queueMessages' = IF t.resp.ok THEN t.resp.body ELSE <<>>
            /\ UNCHANGED <<responseMessage, products, loading, error, editor>>]_vars

\* Witness of C13: a queue fetch has filled the batch with the remote queue's
\* messages, and the failure of a second queue fetch is about to be handled.
QueueFetchFailsOverBatch ==
    /\ queueMessages = serverQueue
    /\ queueMessages # <<>>
    /\ \E t \in Live : t.stage = "qget" /\ t.net = "served" /\ ~t.resp.ok

\* Witness of C10: the batch has been cleared while the answer to a queue
\* fetch, holding the remote queue's messages, is on its way.
QueueClearedDuringFetch ==
    /\ responseMessage = QueueCleared
    /\ queueMessages = <<>>
    /\ \E t \in Live : /\ t.stage = "qget" /\ t.net = "served" /\ t.resp.ok
                        /\ t.resp.body = serverQueue /\ serverQueue # <<>>

====
